---- MODULE Spec2Model ----
(***************************************************************************)
(* Regex -> NFA -> DFA -> minimized DFA -> transformation monoid.          *)
(*                                                                         *)
(* The model follows src/src/nfa.rs, src/src/dfa.rs and src/src/monoid.rs. *)
(* Bytes are the numbers 0..NumBytes-1 (0 = 'a', 1 = 'b', 2 = 'c',         *)
(* 3 = 'd'); the epsilon label, index 256 of an NFA transition table in    *)
(* the source, is index NumBytes here.  State ids are 0-based as in the    *)
(* source; a Vec v is a sequence whose element v[i] is At(v, i).           *)
(***************************************************************************)
EXTENDS Integers, Sequences, FiniteSets, TLC

\* ------------------------------------------------------------------ bounds
\* Number of byte values of the alphabet (256 in the source).
NumBytes == 4
\* Enumerated syntax trees have at most MaxNodes nodes ...
MaxNodes == 4
\* ... and literals drawn from the bytes 0..MaxLeafByte.
MaxLeafByte == 1
\* Input strings of Dfa::accept have at most MaxStrLen bytes.
MaxStrLen == 2
\* The NFAs handed to Nfa::epsilon_expand on its own have MaxEpsStates states.
MaxEpsStates == 2
\* The trees handed to Nfa::re2nfa on its own have at most MaxNfaNodes nodes.
MaxNfaNodes == 5

Bytes == 0 .. (NumBytes - 1)
\* Index of the epsilon column of an NFA transition table (256 in the source).
Eps == NumBytes
None == -1

At(v, i) == v[i + 1]
SetAt(v, i, x) == [v EXCEPT ![i + 1] = x]

\* ------------------------------------------------------- syntax tree nodes
Literal(c) == [node_type |-> "Literal", value |-> c]
Dot == [node_type |-> "Dot"]
OpConcat(l, r) == [node_type |-> "OpConcat", lhs |-> l, rhs |-> r]
OpUnion(l, r) == [node_type |-> "OpUnion", lhs |-> l, rhs |-> r]
OpStar(l) == [node_type |-> "OpStar", lhs |-> l]

Leaves == {Literal(c) : c \in 0 .. MaxLeafByte} \cup {Dot}

\* All trees with exactly n nodes.
RECURSIVE TreesOfSize(_)
TreesOfSize(n) ==
    IF n <= 0 THEN {}
    ELSE IF n = 1 THEN Leaves
    ELSE {OpStar(t) : t \in TreesOfSize(n - 1)}
         \cup UNION {UNION {{OpConcat(l, r), OpUnion(l, r)} :
                              l \in TreesOfSize(k), r \in TreesOfSize(n - 1 - k)} :
                     k \in 1 .. (n - 2)}

\* The regular expressions of the tests in src/src/dfa.rs.
NamedTrees ==
    { Literal(0),                                              \* "a"
      OpUnion(Literal(0), Literal(1)),                         \* "a|b"
      OpConcat(Literal(0), Literal(1)),                        \* "ab"
      OpStar(Literal(0)),                                      \* "a*"
      OpConcat(OpUnion(Literal(0), Literal(1)), Literal(2)),   \* "(a|b)c"
      OpConcat(OpStar(Literal(0)), Literal(2)),                \* "a*c"
      OpStar(OpUnion(Literal(0), Literal(2))),                 \* "(a|c)*"
      OpStar(OpConcat(Literal(0), Literal(0))),                \* "(aa)*"
      OpUnion(OpConcat(OpConcat(OpConcat(Literal(0), OpStar(Dot)), Literal(1)),
                       Literal(2)),
              OpConcat(Literal(1), Literal(3))) }              \* "(a.*bc|bd)"

Trees == NamedTrees \cup UNION {TreesOfSize(n) : n \in 1 .. MaxNodes}

\* ---------------------------------------------------------------- nfa.rs
\* Label of an NFA transition.
Epsilon == [label |-> "Epsilon"]
Input(c) == [label |-> "Input", byte |-> c]
LabelDot == [label |-> "Dot"]

\* State::insert_transition: Dot fills every byte column, Input(c) column c,
\* Epsilon column 256.  An absent entry (None) is the empty set: an entry,
\* once Some, always holds at least the inserted state.
insert_transition(state, label, target) ==
    IF label.label = "Dot"
    THEN [state EXCEPT !.transition =
            [i \in 0 .. Eps |-> IF i \in Bytes THEN @[i] \cup {target} ELSE @[i]]]
    ELSE LET c == IF label.label = "Input" THEN label.byte ELSE Eps
         IN  [state EXCEPT !.transition[c] = @ \cup {target}]

\* Nfa::add_state
add_state(states) ==
    Append(states, [transition |-> [i \in 0 .. Eps |-> {}],
                    id |-> Len(states),
                    accept |-> FALSE])

\* self.states[id].insert_transition(label, target)
Insert(states, id, label, target) ==
    SetAt(states, id, insert_transition(At(states, id), label, target))

\* Nfa::construct whose OpUnion arm adds no state after the left operand: the
\* left operand's last state is taken as lhs_last_state_id.
RECURSIVE construct_union_no_join(_, _)
construct_union_no_join(states, node) ==
    CASE node.node_type = "OpUnion" ->
            LET s1 == add_state(states)
                branch_node_id == Len(s1) - 1
                s2 == Insert(s1, branch_node_id, Epsilon, Len(s1))
                s3 == construct_union_no_join(s2, node.lhs)
                s4 == s3
                lhs_last_state_id == Len(s4) - 1
                s5 == Insert(s4, branch_node_id, Epsilon, Len(s4))
                s6 == construct_union_no_join(s5, node.rhs)
            IN  Insert(s6, lhs_last_state_id, Epsilon, Len(s6))
      [] node.node_type = "OpConcat" ->
            construct_union_no_join(construct_union_no_join(states, node.lhs), node.rhs)
      [] node.node_type = "OpStar" ->
            LET s1 == add_state(states)
                loop_node_id == Len(s1) - 1
                s2 == Insert(s1, loop_node_id, Epsilon, loop_node_id + 1)
                s3 == construct_union_no_join(s2, node.lhs)
                s4 == add_state(s3)
                last_state_id == Len(s4) - 1
                s5 == Insert(s4, last_state_id, Epsilon, loop_node_id)
                next_state_id == Len(s5)
            IN  Insert(s5, loop_node_id, Epsilon, next_state_id)
      [] node.node_type = "Dot" ->
            LET s1 == add_state(states)
            IN  Insert(s1, Len(s1) - 1, LabelDot, Len(s1))
      [] node.node_type = "Literal" ->
            LET s1 == add_state(states)
            IN  Insert(s1, Len(s1) - 1, Input(node.value), Len(s1))

\* Nfa::construct
RECURSIVE construct(_, _)
construct(states, node) ==
    CASE node.node_type = "OpUnion" ->
            LET s1 == add_state(states)
                branch_node_id == Len(s1) - 1
                s2 == Insert(s1, branch_node_id, Epsilon, Len(s1))
                s3 == construct(s2, node.lhs)
                s4 == add_state(s3)
                lhs_last_state_id == Len(s4) - 1
                s5 == Insert(s4, branch_node_id, Epsilon, Len(s4))
                s6 == construct(s5, node.rhs)
            IN  Insert(s6, lhs_last_state_id, Epsilon, Len(s6))
      [] node.node_type = "OpConcat" ->
            construct(construct(states, node.lhs), node.rhs)
      [] node.node_type = "OpStar" ->
            LET s1 == add_state(states)
                loop_node_id == Len(s1) - 1
                s2 == Insert(s1, loop_node_id, Epsilon, loop_node_id + 1)
                s3 == construct(s2, node.lhs)
                s4 == add_state(s3)
                last_state_id == Len(s4) - 1
                s5 == Insert(s4, last_state_id, Epsilon, loop_node_id)
                next_state_id == Len(s5)
            IN  Insert(s5, loop_node_id, Epsilon, next_state_id)
      [] node.node_type = "Dot" ->
            LET s1 == add_state(states)
            IN  Insert(s1, Len(s1) - 1, LabelDot, Len(s1))
      [] node.node_type = "Literal" ->
            LET s1 == add_state(states)
            IN  Insert(s1, Len(s1) - 1, Input(node.value), Len(s1))

\* re2nfa with accept set on the last state of the tree, before the final
\* add_state.
re2nfa_accept_early(root) ==
    LET s1 == add_state(<<>>)
        s2 == Insert(s1, Len(s1) - 1, Epsilon, Len(s1))
        s3 == construct(s2, root)
        s4 == SetAt(s3, Len(s3) - 1, [At(s3, Len(s3) - 1) EXCEPT !.accept = TRUE])
    IN  add_state(s4)

\* Nfa::re2nfa, from the syntax tree on (the parser is an external crate).
re2nfa(root) ==
    LET s1 == add_state(<<>>)
        s2 == Insert(s1, Len(s1) - 1, Epsilon, Len(s1))
        s3 == construct(s2, root)
        s4 == add_state(s3)
    IN  SetAt(s4, Len(s4) - 1, [At(s4, Len(s4) - 1) EXCEPT !.accept = TRUE])

\* A set of numbers as the ascending sequence of its members.
RECURSIVE SeqOf(_)
SeqOf(S) ==
    IF S = {} THEN <<>>
    ELSE LET m == CHOOSE x \in S : \A y \in S : x <= y
         IN  <<m>> \o SeqOf(S \ {m})

\* Every order in which the members of a HashSet can be iterated.
RECURSIVE Perms(_)
Perms(S) ==
    IF S = {} THEN {<<>>}
    ELSE UNION {{<<x>> \o p : p \in Perms(S \ {x})} : x \in S}

\* epsilon_pop with the test !done.contains(next_state_id) made before
\* done.insert(state_id).
epsilon_pop_insert_late(states, queue, done, order) ==
    LET state_id == queue[Len(queue)]
        popped == SubSeq(queue, 1, Len(queue) - 1)
    IN  [queue |-> popped \o SelectSeq(order, LAMBDA n : n \notin done),
         done |-> done \cup {state_id}]

\* The body of the while loop of Nfa::epsilon_expand: the last element of
\* queue is popped (Vec::pop) and entered in done, and the members of its
\* epsilon entry that are not in done are pushed in the order next.iter()
\* gives them, the sequence order.
epsilon_pop(states, queue, done, order) ==
    LET state_id == queue[Len(queue)]
        popped == SubSeq(queue, 1, Len(queue) - 1)
        done1 == done \cup {state_id}
    IN  [queue |-> popped \o SelectSeq(order, LAMBDA n : n \notin done1),
         done |-> done1]

\* The while loop of Nfa::epsilon_expand, the members of every set taken in
\* ascending order (the specification SpecEps takes them in every order).
RECURSIVE epsilon_loop(_, _, _)
epsilon_loop(states, queue, done) ==
    IF Len(queue) = 0 THEN done
    ELSE LET r == epsilon_pop(states, queue, done,
                      SeqOf(At(states, queue[Len(queue)]).transition[Eps]))
         IN  epsilon_loop(states, r.queue, r.done)

\* Nfa::epsilon_expand
epsilon_expand(states, state_set) == epsilon_loop(states, SeqOf(state_set), {})

\* Nfa::start_states
start_states(states) == epsilon_expand(states, {0})

\* Nfa::t; None is the empty set (a Some entry is never empty).
t(states, id, c) ==
    LET nfa_t == At(states, id).transition[c]
    IN  IF nfa_t # {} THEN nfa_t \cup epsilon_expand(states, nfa_t) ELSE {}

\* ---------------------------------------------------------------- dfa.rs
\* dfa::State::new
NewDfaState(id, accept) == [t |-> [c \in Bytes |-> None], id |-> id, accept |-> accept]

\* Dfa::new
NewDfa == [states |-> <<>>, state_num |-> 0]

\* Dfa::new_state
new_state(d, accept) ==
    [states |-> Append(d.states, NewDfaState(d.state_num, accept)),
     state_num |-> d.state_num + 1]

\* Members of a subset that have a transition on some byte: only their
\* relative order in the iteration of the subset decides `transitions`.
Movers(states, subset) ==
    {s \in subset : \E c \in Bytes : At(states, s).transition[c] # {}}

\* The iteration orders of subset.iter() that Dfa::construct can meet; members
\* without byte transitions leave `transitions` alone wherever they come.
IterOrders(states, subset) ==
    {SeqOf(subset \ Movers(states, subset)) \o p : p \in Perms(Movers(states, subset))}

\* The first for loop of the body of Dfa::construct's while loop, for the
\* members of the subset in the order ord: the entry for byte c is overwritten
\* by every member that has a transition on c.
RECURSIVE subset_loop(_, _, _, _)
subset_loop(states, ord, k, acc) ==
    IF k > Len(ord) THEN acc
    ELSE LET iter == ord[k]
         IN  subset_loop(states, ord, k + 1,
                 [accept |-> acc.accept \/ At(states, iter).accept,
                  transitions |->
                      [c \in Bytes |-> IF t(states, iter, c) # {}
                                       THEN t(states, iter, c)
                                       ELSE acc.transitions[c]]])

\* The second for loop with queue.push_front in place of queue.push_back.
RECURSIVE byte_loop_push_front(_, _, _, _)
byte_loop_push_front(st, transitions, id, c) ==
    IF c >= NumBytes THEN st
    ELSE LET next == transitions[c]
         IN  IF next = {} THEN byte_loop_push_front(st, transitions, id, c + 1)
             ELSE LET fresh == next \notin DOMAIN st.subset_to_state
                      map1 == IF fresh
                              THEN st.subset_to_state @@ (next :> st.state_num)
                              ELSE st.subset_to_state
                      st1 == [queue |-> IF fresh THEN <<next>> \o st.queue ELSE st.queue,
                              subset_to_state |-> map1,
                              state_num |-> IF fresh THEN st.state_num + 1 ELSE st.state_num,
                              dfa |-> [st.dfa EXCEPT !.states =
                                          SetAt(@, id, [At(@, id) EXCEPT !.t[c] = map1[next]])]]
                  IN  byte_loop_push_front(st1, transitions, id, c + 1)

\* One iteration of the while loop of Dfa::construct, the members of the
\* dequeued subset iterated in the order ord.
\* The second for loop of the body: st = [queue, subset_to_state, state_num,
\* dfa]; id is the DFA state being filled.
RECURSIVE byte_loop(_, _, _, _)
byte_loop(st, transitions, id, c) ==
    IF c >= NumBytes THEN st
    ELSE LET next == transitions[c]
         IN  IF next = {} THEN byte_loop(st, transitions, id, c + 1)
             ELSE LET fresh == next \notin DOMAIN st.subset_to_state
                      map1 == IF fresh
                              THEN st.subset_to_state @@ (next :> st.state_num)
                              ELSE st.subset_to_state
                      st1 == [queue |-> IF fresh THEN Append(st.queue, next) ELSE st.queue,
                              subset_to_state |-> map1,
                              state_num |-> IF fresh THEN st.state_num + 1 ELSE st.state_num,
                              dfa |-> [st.dfa EXCEPT !.states =
                                          SetAt(@, id, [At(@, id) EXCEPT !.t[c] = map1[next]])]]
                  IN  byte_loop(st1, transitions, id, c + 1)

\* One iteration of the while loop of Dfa::construct, the members of the
\* dequeued subset iterated in the order ord.
construct_step(states, st, ord) ==
    LET r == subset_loop(states, ord, 1,
                         [accept |-> FALSE, transitions |-> [c \in Bytes |-> {}]])
        d1 == new_state(st.dfa, r.accept)
        id == st.dfa.state_num
    IN  byte_loop([st EXCEPT !.queue = Tail(st.queue), !.dfa = d1],
                  r.transitions, id, 0)

\* Dfa::accept: follows the transitions of s from state 0; false on a missing
\* transition, true when the string is used up.
RECURSIVE accept_loop(_, _, _, _)
accept_loop(states, state, s, k) ==
    IF k > Len(s) THEN TRUE
    ELSE IF At(states, state).t[s[k]] # None
         THEN accept_loop(states, At(states, state).t[s[k]], s, k + 1)
         ELSE FALSE

accept(d, s) == accept_loop(d.states, 0, s, 1)

\* distinction_table[i][len - j - 1] of Dfa::minimize, for i < j.
Distinct(table, len, i, j) == At(At(table, i), len - j - 1)

\* initial_table with == for != : the pairs of equal accept flags start as
\* distinguished.
initial_table_equal_flags(states) ==
    LET len == Len(states)
    IN  [r \in 1 .. len |->
            [k \in 1 .. (len - r) |->
                At(states, r - 1).accept = At(states, len - k).accept]]

\* The initial distinction_table: row i holds, for j from len-1 down to i+1,
\* whether the accept flags of i and j differ; the last row stays empty.
initial_table(states) ==
    LET len == Len(states)
    IN  [r \in 1 .. len |->
            [k \in 1 .. (len - r) |->
                At(states, r - 1).accept # At(states, len - k).accept]]

\* marks without the look-up of the successor pair in the table: any two
\* different entries mark the pair.
marks_any_difference(states, table, i, j) ==
    \E c \in Bytes : At(states, i).t[c] # At(states, j).t[c]

\* The for c loop of the fixpoint of Dfa::minimize for the pair (i, j): some
\* byte leads to different entries, one of them None or the two distinguished.
marks(states, table, i, j) ==
    \E c \in Bytes :
        LET a == At(states, i).t[c]
            b == At(states, j).t[c]
            n1 == IF a > b THEN b ELSE a
            n2 == IF a > b THEN a ELSE b
        IN  /\ a # b
            /\ \/ n1 = None
               \/ n2 = None
               \/ Distinct(table, Len(states), n1, n2)

\* One pass of the for i / for j loops, the table updated in place.
RECURSIVE sweep(_, _, _, _, _)
sweep(states, table, flag, i, j) ==
    LET len == Len(states)
    IN  IF i >= len - 1 THEN [table |-> table, flag |-> flag]
        ELSE IF j >= len THEN sweep(states, table, flag, i + 1, i + 2)
        ELSE IF ~Distinct(table, len, i, j) /\ marks(states, table, i, j)
             THEN sweep(states,
                        SetAt(table, i, SetAt(At(table, i), len - j - 1, TRUE)),
                        TRUE, i, j + 1)
             ELSE sweep(states, table, flag, i, j + 1)

\* while distinction_flag { ... }
RECURSIVE fixpoint(_, _)
fixpoint(states, table) ==
    LET r == sweep(states, table, FALSE, 0, 1)
    IN  IF r.flag THEN fixpoint(states, r.table) ELSE r.table

\* swap_map: j is entered, once, at the first i < j (i ascending in the outer
\* loop) that the table does not distinguish from j.
swap_map_of(states, table) ==
    LET len == Len(states)
        cand(j) == {i \in 0 .. (j - 1) : ~Distinct(table, len, i, j)}
    IN  [j \in {x \in 0 .. (len - 1) : cand(x) # {}} |->
            CHOOSE i \in cand(j) : \A k \in cand(j) : i <= k]

\* The for s loop that fills replace_map and moves the kept states down.
RECURSIVE compact(_, _, _, _, _)
compact(states, swap_map, replace_map, d, s) ==
    IF s >= Len(states) THEN [states |-> states, replace_map |-> replace_map]
    ELSE IF s \notin DOMAIN swap_map
         THEN LET rm == SetAt(replace_map, s, d)
                  st == IF s # d
                        THEN SetAt(states, d, [At(states, s) EXCEPT !.id = d])
                        ELSE states
              IN  compact(st, swap_map, rm, d + 1, s + 1)
         ELSE compact(states, swap_map,
                      SetAt(replace_map, s, At(replace_map, swap_map[s])),
                      d, s + 1)

\* while self.states[i].id < minimum_size { ...; i += 1 }
RECURSIVE rewrite(_, _, _, _)
rewrite(states, replace_map, minimum_size, i) ==
    IF At(states, i).id < minimum_size
    THEN rewrite(SetAt(states, i,
                       [At(states, i) EXCEPT !.t =
                           [c \in Bytes |-> IF @[c] # None
                                            THEN At(replace_map, @[c])
                                            ELSE None]]),
                 replace_map, minimum_size, i + 1)
    ELSE states

\* replace_map of Dfa::minimize (the class of every state), for the claims.
replace_map_of(states) ==
    LET swap_map == swap_map_of(states, fixpoint(states, initial_table(states)))
    IN  compact(states, swap_map, [s \in 1 .. Len(states) |-> 0], 0, 0).replace_map

\* Dfa::minimize
minimize(d) ==
    LET states == d.states
        swap_map == swap_map_of(states, fixpoint(states, initial_table(states)))
        minimum_size == Len(states) - Cardinality(DOMAIN swap_map)
        r == compact(states, swap_map, [s \in 1 .. Len(states) |-> 0], 0, 0)
    IN  IF DOMAIN swap_map = {} THEN d
        ELSE [d EXCEPT !.states =
                 SubSeq(rewrite(r.states, r.replace_map, minimum_size, 0),
                        1, minimum_size)]

\* -------------------------------------------------------------- monoid.rs
\* TransitionPat::new
new_pat(dfa_size) == [i \in 0 .. dfa_size |-> 0]

\* TransitionPat::identity
identity(dfa_size) == [i \in 0 .. dfa_size |-> i]

\* TransitionPat::multiply
pat_multiply(self, other) == [i \in DOMAIN self |-> other[self[i]]]

\* The pattern `next` that Monoid::construct computes from pat and byte c.
next_pat(states, pat, c) ==
    [i \in 0 .. Len(states) |->
        IF pat[i] = Len(states) THEN Len(states)
        ELSE IF At(states, pat[i]).t[c] # None THEN At(states, pat[i]).t[c]
        ELSE Len(states)]

\* The for c loop of Monoid::construct for the dequeued pat; m = [queue,
\* transitions_map, char_morphism, panicked].  char_morphism[c] = tmap_len
\* indexes a Vec that is never grown: beyond its length the program aborts.
RECURSIVE generator_loop(_, _, _, _, _)
generator_loop(states, m, pat, ident, c) ==
    IF c >= NumBytes \/ m.panicked THEN m
    ELSE LET next == next_pat(states, pat, c)
         IN  IF next \in DOMAIN m.transitions_map
             THEN LET tmap_len == Cardinality(DOMAIN m.transitions_map)
                      map1 == [m.transitions_map EXCEPT ![next] = tmap_len]
                  IN  IF pat = ident /\ c >= Len(m.char_morphism)
                      THEN [m EXCEPT !.transitions_map = map1, !.panicked = TRUE]
                      ELSE generator_loop(states,
                              [m EXCEPT !.transitions_map = map1,
                                        !.char_morphism =
                                            IF pat = ident THEN SetAt(@, c, tmap_len) ELSE @,
                                        !.queue = <<next>> \o @],
                              pat, ident, c + 1)
             ELSE generator_loop(states, m, pat, ident, c + 1)

\* while let Some(pat) = queue.pop_back() { ... }
RECURSIVE pattern_loop(_, _, _)
pattern_loop(states, m, ident) ==
    IF m.queue = <<>> \/ m.panicked THEN m
    ELSE LET pat == m.queue[Len(m.queue)]
             m1 == [m EXCEPT !.queue = SubSeq(@, 1, Len(@) - 1)]
         IN  pattern_loop(states, generator_loop(states, m1, pat, ident, 0), ident)

\* elements: the keys of transitions_map sorted by their index.
elements_of(transitions_map) ==
    [i \in 0 .. (Cardinality(DOMAIN transitions_map) - 1) |->
        CHOOSE p \in DOMAIN transitions_map : transitions_map[p] = i]

\* multiply_table; the product of two elements that is no key of
\* transitions_map makes unwrap() abort (the entry is None here).
table_of(transitions_map) ==
    LET n == Cardinality(DOMAIN transitions_map)
        elements == elements_of(transitions_map)
    IN  [i \in 0 .. (n - 1) |-> [j \in 0 .. (n - 1) |->
            IF i = 0 THEN j
            ELSE IF j = 0 THEN i
            ELSE LET prod == pat_multiply(elements[i], elements[j])
                 IN  IF prod \in DOMAIN transitions_map
                     THEN transitions_map[prod] ELSE None]]

\* Monoid::construct
monoid_construct(d) ==
    LET ident == identity(Len(d.states))
        m == pattern_loop(d.states,
                          [queue |-> <<ident>>,
                           transitions_map |-> (ident :> 0),
                           char_morphism |-> <<>>,
                           panicked |-> FALSE],
                          ident)
        table == table_of(m.transitions_map)
    IN  IF m.panicked
        THEN [panicked |-> TRUE, transitions_map |-> m.transitions_map,
              multiply_table |-> <<>>, char_morphism |-> m.char_morphism]
        ELSE [panicked |-> \E i, j \in DOMAIN table : table[i][j] = None,
              transitions_map |-> m.transitions_map,
              multiply_table |-> table,
              char_morphism |-> m.char_morphism]

\* Monoid::multiply
multiply(m, x, y) == m.multiply_table[x][y]

\* Monoid::size
size(m) == Cardinality(DOMAIN m.multiply_table)

\* for j in 0..self.size() { e = self.multiply(i, j) }
RECURSIVE power_loop(_, _, _, _)
power_loop(m, i, j, e) ==
    IF j >= size(m) THEN e
    ELSE power_loop(m, i, j + 1, multiply(m, i, j))

\* Monoid::is_aperiodic
is_aperiodic(m) ==
    \A i \in 0 .. (size(m) - 1) :
        LET e == power_loop(m, i, 0, i)
        IN  e = multiply(m, e, i)

VARIABLES pc, tree, nfa, queue, subset_to_state, state_num, dfa, minimized,
          input, result, monoid, aperiodic,
          e_seed, e_queue, e_done, e_pass, e_first, e_pops

\* The variables of a run of the pipeline ...
pipeVars == <<tree, queue, subset_to_state, state_num, dfa, minimized,
              input, result, monoid, aperiodic>>
\* ... and those of the calls of Nfa::epsilon_expand on a set of its own:
\* the set, the queue and done of the call, which call it is, the result of
\* the first call, and the pops of the call so far.
epsVars == <<e_seed, e_queue, e_done, e_pass, e_first, e_pops>>

vars == <<pc, nfa, pipeVars, epsVars>>

\* No Monoid built yet.
NoMonoid == [panicked |-> FALSE, transitions_map |-> <<>>,
             multiply_table |-> <<>>, char_morphism |-> <<>>]

\* The input strings of Dfa::accept.
Strings == UNION {[1 .. n -> Bytes] : n \in 0 .. MaxStrLen}

Init ==
    /\ pc = "start"
    /\ tree \in Trees
    /\ nfa = <<>>
    /\ queue = <<>>
    /\ subset_to_state = <<>>
    /\ state_num = 0
    /\ dfa = NewDfa
    /\ minimized = 0
    /\ input = <<>>
    /\ result = FALSE
    /\ monoid = NoMonoid
    /\ aperiodic = FALSE
    /\ e_seed = {}
    /\ e_queue = <<>>
    /\ e_done = {}
    /\ e_pass = 0
    /\ e_first = {}
    /\ e_pops = 0

\* Nfa::re2nfa
Re2Nfa ==
    /\ pc = "start"
    /\ pc' = "nfa"
    /\ nfa' = re2nfa(tree)
    /\ UNCHANGED <<tree, queue, subset_to_state, state_num, dfa, minimized, input, result, monoid, aperiodic>>
    /\ UNCHANGED epsVars

\* Dfa::construct up to its while loop.
ConstructBegin ==
    /\ pc = "nfa"
    /\ pc' = "construct"
    /\ queue' = <<start_states(nfa)>>
    /\ subset_to_state' = (start_states(nfa) :> 0)
    /\ state_num' = 1
    /\ dfa' = NewDfa
    /\ UNCHANGED <<tree, nfa, minimized, input, result, monoid, aperiodic>>
    /\ UNCHANGED epsVars

\* One iteration of the while loop of Dfa::construct; when the queue is empty
\* afterwards, dfa.state_num is set and the DFA is returned.
ConstructStep ==
    /\ pc = "construct"
    /\ queue # <<>>
    /\ \E ord \in IterOrders(nfa, Head(queue)) :
          LET st == construct_step(nfa,
                        [queue |-> queue, subset_to_state |-> subset_to_state,
                         state_num |-> state_num, dfa |-> dfa], ord)
          IN  /\ queue' = st.queue
              /\ subset_to_state' = st.subset_to_state
              /\ state_num' = st.state_num
              /\ dfa' = IF st.queue = <<>>
                        THEN [st.dfa EXCEPT !.state_num = st.state_num]
                        ELSE st.dfa
              /\ pc' = IF st.queue = <<>> THEN "dfa" ELSE "construct"
    /\ UNCHANGED <<tree, nfa, minimized, input, result, monoid, aperiodic>>
    /\ UNCHANGED epsVars

\* Dfa::minimize, on the DFA of Dfa::nfa2dfa or on an already minimized one;
\* minimized counts the calls so far, two standing for two or more.
Minimize ==
    /\ pc = "dfa"
    /\ dfa' = minimize(dfa)
    /\ minimized' = IF minimized < 2 THEN minimized + 1 ELSE minimized
    /\ UNCHANGED <<pc, tree, nfa, queue, subset_to_state, state_num, input, result, monoid, aperiodic>>
    /\ UNCHANGED epsVars

\* Dfa::accept on an input string.
Accept ==
    /\ pc = "dfa"
    /\ \E s \in Strings :
          /\ input' = s
          /\ result' = accept(dfa, s)
    /\ pc' = "accepted"
    /\ UNCHANGED <<tree, nfa, queue, subset_to_state, state_num, dfa, minimized, monoid, aperiodic>>
    /\ UNCHANGED epsVars

\* Monoid::construct on the DFA, minimized or not; an abort ends the program.
MonoidConstruct ==
    /\ pc = "dfa"
    /\ monoid' = monoid_construct(dfa)
    /\ pc' = IF monoid'.panicked THEN "panic" ELSE "monoid"
    /\ UNCHANGED <<tree, nfa, queue, subset_to_state, state_num, dfa, minimized,
                   input, result, aperiodic>>
    /\ UNCHANGED epsVars

\* Monoid::is_aperiodic
IsAperiodic ==
    /\ pc = "monoid"
    /\ aperiodic' = is_aperiodic(monoid)
    /\ pc' = "verdict"
    /\ UNCHANGED <<tree, nfa, queue, subset_to_state, state_num, dfa, minimized,
                   input, result, monoid>>
    /\ UNCHANGED epsVars

Next ==
    \/ Re2Nfa
    \/ ConstructBegin
    \/ ConstructStep
    \/ Minimize
    \/ Accept
    \/ MonoidConstruct
    \/ IsAperiodic

Spec == Init /\ [][Next]_vars

\* ------------------------------------- Nfa::epsilon_expand on any NFA
\* The NFAs with MaxEpsStates states and any epsilon transitions among them
\* (the byte columns, which epsilon_expand does not read, stay empty).
EpsNfas ==
    LET ids == 0 .. (MaxEpsStates - 1)
    IN  {[k \in 1 .. MaxEpsStates |->
            [transition |-> [i \in 0 .. Eps |-> IF i = Eps THEN e[k - 1] ELSE {}],
             id |-> k - 1,
             accept |-> FALSE]] : e \in [ids -> SUBSET ids]}

\* A first call of epsilon_expand on a StateSet of valid indices, its queue
\* filled in some iteration order of the set.
InitEps ==
    /\ pc = "eps"
    /\ nfa \in EpsNfas
    /\ tree = <<>>
    /\ queue = <<>>
    /\ subset_to_state = <<>>
    /\ state_num = 0
    /\ dfa = NewDfa
    /\ minimized = 0
    /\ input = <<>>
    /\ result = FALSE
    /\ monoid = NoMonoid
    /\ aperiodic = FALSE
    /\ e_seed \in SUBSET (0 .. (MaxEpsStates - 1))
    /\ e_queue \in Perms(e_seed)
    /\ e_done = {}
    /\ e_pass = 1
    /\ e_first = {}
    /\ e_pops = 0

\* One iteration of the while loop of Nfa::epsilon_expand.
EpsPop ==
    /\ pc = "eps"
    /\ Len(e_queue) # 0
    /\ \E order \in Perms(At(nfa, e_queue[Len(e_queue)]).transition[Eps]) :
          LET r == epsilon_pop(nfa, e_queue, e_done, order)
          IN  /\ e_queue' = r.queue
              /\ e_done' = r.done
    /\ e_pops' = e_pops + 1
    /\ UNCHANGED <<pc, nfa, pipeVars, e_seed, e_pass, e_first>>

\* The first call returns done; epsilon_expand is called again on the result.
EpsReturn ==
    /\ pc = "eps"
    /\ Len(e_queue) = 0
    /\ e_pass = 1
    /\ e_first' = e_done
    /\ e_pass' = 2
    /\ e_queue' \in Perms(e_done)
    /\ e_done' = {}
    /\ e_pops' = 0
    /\ UNCHANGED <<pc, nfa, pipeVars, e_seed>>

\* The second call returns done.
EpsFinish ==
    /\ pc = "eps"
    /\ Len(e_queue) = 0
    /\ e_pass = 2
    /\ pc' = "eps_done"
    /\ UNCHANGED <<nfa, pipeVars, epsVars>>

NextEps == EpsPop \/ EpsReturn \/ EpsFinish

SpecEps == InitEps /\ [][NextEps]_vars

\* ------------------------------------------ Nfa::re2nfa on larger trees
NfaTrees == NamedTrees \cup UNION {TreesOfSize(n) : n \in 1 .. MaxNfaNodes}

InitNfa ==
    /\ pc = "start"
    /\ tree \in NfaTrees
    /\ nfa = <<>>
    /\ queue = <<>>
    /\ subset_to_state = <<>>
    /\ state_num = 0
    /\ dfa = NewDfa
    /\ minimized = 0
    /\ input = <<>>
    /\ result = FALSE
    /\ monoid = NoMonoid
    /\ aperiodic = FALSE
    /\ e_seed = {}
    /\ e_queue = <<>>
    /\ e_done = {}
    /\ e_pass = 0
    /\ e_first = {}
    /\ e_pops = 0

NextNfa == Re2Nfa

SpecNfa == InitNfa /\ [][NextNfa]_vars

\* ------------------------------------------------------------------ claims
\* The language of a syntax tree: does the byte string s match it?
RECURSIVE Matches(_, _)
Matches(node, s) ==
    CASE node.node_type = "Literal" -> s = <<node.value>>
      [] node.node_type = "Dot" -> Len(s) = 1
      [] node.node_type = "OpConcat" ->
            \E k \in 0 .. Len(s) :
                /\ Matches(node.lhs, SubSeq(s, 1, k))
                /\ Matches(node.rhs, SubSeq(s, k + 1, Len(s)))
      [] node.node_type = "OpUnion" -> Matches(node.lhs, s) \/ Matches(node.rhs, s)
      [] node.node_type = "OpStar" ->
            \/ s = <<>>
            \/ \E k \in 1 .. Len(s) :
                /\ Matches(node.lhs, SubSeq(s, 1, k))
                /\ Matches(node, SubSeq(s, k + 1, Len(s)))

\* C1: on the DFA that Dfa::nfa2dfa returns for a regex, Dfa::accept(s) is
\* true exactly when s matches the regex (so it is false for "" and regex "a").
C1_AcceptIffMatches ==
    (pc = "accepted" /\ minimized = 0) => (result = Matches(tree, input))

\* x^n in the monoid's multiplication table.
RECURSIVE Power(_, _, _)
Power(m, x, n) == IF n <= 1 THEN x ELSE multiply(m, Power(m, x, n - 1), x)

\* Every element has a power n in 1..size with x^n = x^(n+1).
EveryElementStabilises(m) ==
    \A x \in 0 .. (size(m) - 1) :
        \E n \in 1 .. size(m) : Power(m, x, n) = Power(m, x, n + 1)

\* C2: is_aperiodic is true iff every element x has a power n >= 1 with
\* x^n = x^(n+1); so it is false for "(aa)*" and true for "(a|c)*".
C2_AperiodicVerdict ==
    pc = "verdict" =>
        /\ aperiodic = EveryElementStabilises(monoid)
        /\ tree = OpStar(OpConcat(Literal(0), Literal(0))) => ~aperiodic
        /\ tree = OpStar(OpUnion(Literal(0), Literal(2))) => aperiodic

\* The generator g_c of the DFA with N states: g_c(i) = delta(i, c) when i is
\* a state with a transition on c, and N otherwise.
Generator(states, c) ==
    [i \in 0 .. Len(states) |->
        IF i < Len(states) /\ At(states, i).t[c] # None
        THEN At(states, i).t[c]
        ELSE Len(states)]

\* The patterns reachable from those of S by composing with generators.
RECURSIVE ComposeClosure(_, _)
ComposeClosure(states, S) ==
    LET S1 == S \cup {[i \in DOMAIN p |-> Generator(states, c)[p[i]]] :
                        p \in S, c \in Bytes}
    IN  IF S1 = S THEN S ELSE ComposeClosure(states, S1)

\* C3: when Monoid::construct finishes, the keys of transitions_map are
\* exactly the patterns reachable from the identity by composing with the
\* generators.
C3_ElementsAreClosure ==
    pc \in {"monoid", "verdict"} =>
        DOMAIN monoid.transitions_map
            = ComposeClosure(dfa.states, {identity(Len(dfa.states))})

\* What a state shows at the end of a run: its accept flag.
Flag(states, state) == IF At(states, state).accept THEN "accept" ELSE "reject"

\* What running w from state `state` shows: "missing" when a transition is
\* missing, else the accept flag of the state reached.
RECURSIVE Outcome(_, _, _, _)
Outcome(states, state, w, k) ==
    IF k > Len(w) THEN Flag(states, state)
    ELSE IF At(states, state).t[w[k]] = None THEN "missing"
    ELSE Outcome(states, At(states, state).t[w[k]], w, k + 1)

\* C4: Dfa::minimize on a DFA of Dfa::nfa2dfa preserves the language: every
\* string w hits a missing transition before and after, or ends in states of
\* the same accept flag, and Dfa::accept(w) is unchanged; the class replacing
\* a state s has the accept flag of s.  For the strings longer than
\* MaxStrLen: state 0 is replaced by state 0, and the class of s has a
\* transition on c exactly when s has, to the class of the target of s.
C4_MinimizePreservesLanguage ==
    [][(Minimize /\ minimized = 0) =>
          LET class == replace_map_of(dfa.states)
          IN  /\ \A w \in Strings :
                    /\ Outcome(dfa.states, 0, w, 1) = Outcome(dfa'.states, 0, w, 1)
                    /\ accept(dfa, w) = accept(dfa', w)
              /\ At(class, 0) = 0
              /\ \A s \in 0 .. (Len(dfa.states) - 1) :
                    /\ At(class, s) < Len(dfa'.states)
                    /\ At(dfa'.states, At(class, s)).accept = At(dfa.states, s).accept
                    /\ \A c \in Bytes :
                          At(dfa'.states, At(class, s)).t[c]
                              = IF At(dfa.states, s).t[c] = None THEN None
                                ELSE At(class, At(dfa.states, s).t[c])]_vars

\* C4 witness: the first minimize call has merged states of a DFA and more
\* than one state is left.
C4_Witness ==
    /\ pc = "dfa"
    /\ minimized = 1
    /\ Len(dfa.states) < Cardinality(DOMAIN subset_to_state)
    /\ Len(dfa.states) >= 2

\* The states of d reachable from state 0.
RECURSIVE ReachableFrom(_, _)
ReachableFrom(states, S) ==
    LET S1 == S \cup ({At(states, p).t[c] : p \in S, c \in Bytes} \ {None})
    IN  IF S1 = S THEN S ELSE ReachableFrom(states, S1)

AllReachable(d) == ReachableFrom(d.states, {0}) = 0 .. (Len(d.states) - 1)

\* The pairs of states (None standing for a missing transition) that some
\* byte string tells apart: its runs from the two end differently -- one
\* misses a transition and the other does not, or the accept flags differ.
RECURSIVE ToldApart(_, _)
ToldApart(states, D) ==
    LET Q == (0 .. (Len(states) - 1)) \cup {None}
        step(p, c) == IF p = None THEN None ELSE At(states, p).t[c]
        D1 == D \cup {pq \in Q \X Q :
                        \E c \in Bytes : <<step(pq[1], c), step(pq[2], c)>> \in D}
    IN  IF D1 = D THEN D ELSE ToldApart(states, D1)

Distinguishable(states) ==
    LET Q == (0 .. (Len(states) - 1)) \cup {None}
        obs(p) == IF p = None THEN "missing" ELSE Flag(states, p)
    IN  ToldApart(states, {pq \in Q \X Q : obs(pq[1]) # obs(pq[2])})

Minimal(d) ==
    \A p, q \in 0 .. (Len(d.states) - 1) :
        p # q => <<p, q>> \in Distinguishable(d.states)

\* C5: Dfa::minimize on a DFA whose states are all reachable from state 0
\* leaves a DFA in which every two distinct states are told apart by some byte
\* string, with no more states than before; a second call changes nothing.
C5_MinimizeIsMinimal ==
    [][(Minimize /\ AllReachable(dfa)) =>
          /\ Minimal(dfa')
          /\ Len(dfa'.states) <= Len(dfa.states)
          /\ minimized >= 1 => dfa' = dfa]_vars

\* C5 witness: a second minimize call has run on a DFA that the first call
\* shrank to two or more states.
C5_Witness ==
    /\ pc = "dfa"
    /\ minimized = 2
    /\ Len(dfa.states) < Cardinality(DOMAIN subset_to_state)
    /\ Len(dfa.states) >= 2
    /\ AllReachable(dfa)

\* The StateSet registered in subset_to_state with index k.
SubsetOf(k) == CHOOSE Q \in DOMAIN subset_to_state : subset_to_state[Q] = k

\* closure of the union, over all s in Q, of transitions[s][c].
UnionTarget(Q, c) ==
    LET U == UNION {At(nfa, s).transition[c] : s \in Q}
    IN  U \cup epsilon_expand(nfa, U)

\* C6: in Dfa::construct the transition recorded for a dequeued StateSet Q and
\* byte c is the index of the closure of the union of transitions[s][c] over
\* all s in Q, and is absent only when that union is empty.
C6_TransitionIsUnionClosure ==
    (pc \in {"construct", "dfa"} /\ minimized = 0) =>
        \A k \in 0 .. (Len(dfa.states) - 1) : \A c \in Bytes :
            LET T == UnionTarget(SubsetOf(k), c)
            IN  IF T = {} THEN At(dfa.states, k).t[c] = None
                ELSE /\ T \in DOMAIN subset_to_state
                     /\ At(dfa.states, k).t[c] = subset_to_state[T]

\* C7: no stage aborts: re2nfa, nfa2dfa, minimize and Monoid::construct all
\* run to completion on every regex.
C7_NoAbort == pc # "panic"

\* C8: the result of an iteration of Dfa::construct (and so the DFA) does not
\* depend on the order in which the members of the StateSet are iterated.
C8_ConstructDeterministic ==
    (pc = "construct" /\ queue # <<>>) =>
        LET st == [queue |-> queue, subset_to_state |-> subset_to_state,
                   state_num |-> state_num, dfa |-> dfa]
        IN  \A o1, o2 \in IterOrders(nfa, Head(queue)) :
                construct_step(nfa, st, o1) = construct_step(nfa, st, o2)

\* C9: the Monoid returned holds, for every byte c, the index of the
\* discovered element equal to the generator g_c.
C9_MorphismOnEveryByte ==
    pc \in {"monoid", "verdict"} =>
        /\ Len(monoid.char_morphism) = NumBytes
        /\ \A c \in Bytes :
              /\ At(monoid.char_morphism, c) \in DOMAIN elements_of(monoid.transitions_map)
              /\ elements_of(monoid.transitions_map)[At(monoid.char_morphism, c)]
                    = Generator(dfa.states, c)

\* S together with every state reachable from S by epsilon transitions only.
RECURSIVE EpsReach(_, _)
EpsReach(states, S) ==
    LET S1 == S \cup UNION {At(states, x).transition[Eps] : x \in S}
    IN  IF S1 = S THEN S ELSE EpsReach(states, S1)

\* The number of epsilon transitions of the NFA.
EpsEdges(states) ==
    Cardinality({e \in (0 .. (Len(states) - 1)) \X (0 .. (Len(states) - 1)) :
                    e[2] \in At(states, e[1]).transition[Eps]})

\* C10: epsilon_expand terminates -- a call on S pops at most |S| plus the
\* number of epsilon transitions times -- and is idempotent: the call on its
\* own result returns the result again, which is S with every state reachable
\* from S by epsilon transitions.
C10_EpsilonExpandIdempotent ==
    /\ (pc = "eps" /\ e_pass = 1) =>
            e_pops <= Cardinality(e_seed) + EpsEdges(nfa)
    /\ (pc = "eps" /\ e_pass = 2) =>
            e_pops <= Cardinality(e_first) + EpsEdges(nfa)
    /\ (pc \in {"eps", "eps_done"} /\ e_pass = 2) => e_first = EpsReach(nfa, e_seed)
    /\ pc = "eps_done" => e_done = e_first

\* C10 witness: both calls have returned, on an NFA with an epsilon cycle
\* through a state of the result, which is larger than the set given.
C10_Witness ==
    /\ pc = "eps_done"
    /\ e_done # e_seed
    /\ \E x \in e_done : x \in EpsReach(nfa, At(nfa, x).transition[Eps])

\* The number of states Nfa::construct appends for a node.
RECURSIVE NodeStates(_)
NodeStates(node) ==
    CASE node.node_type \in {"Literal", "Dot"} -> 1
      [] node.node_type = "OpConcat" -> NodeStates(node.lhs) + NodeStates(node.rhs)
      [] node.node_type = "OpUnion" -> NodeStates(node.lhs) + NodeStates(node.rhs) + 2
      [] node.node_type = "OpStar" -> NodeStates(node.lhs) + 2

\* C11: in the NFA of Nfa::re2nfa state 0 is the initial state (it starts the
\* start set and leads by epsilon to the entry of the tree, state 1), exactly
\* one state has accept = true, the last one, appended after the whole tree
\* (position NodeStates(tree) + 1), and every id is its position.
C11_InitialAndFinalState ==
    pc = "nfa" =>
        /\ Len(nfa) = NodeStates(tree) + 2
        /\ \A i \in 0 .. (Len(nfa) - 1) : At(nfa, i).id = i
        /\ {i \in 0 .. (Len(nfa) - 1) : At(nfa, i).accept} = {Len(nfa) - 1}
        /\ \A c \in 0 .. Eps : At(nfa, Len(nfa) - 1).transition[c] = {}
        /\ At(nfa, 0).transition = [c \in 0 .. Eps |-> IF c = Eps THEN {1} ELSE {}]
        /\ 0 \in start_states(nfa)
        /\ \A i \in 0 .. (Len(nfa) - 1) : \A c \in 0 .. Eps :
              0 \notin At(nfa, i).transition[c]

\* C11 witness: the NFA of a tree that ends in a star, whose last state of
\* the tree is followed by the accepting state.
C11_Witness ==
    /\ pc = "nfa"
    /\ tree.node_type = "OpConcat"
    /\ tree.rhs.node_type = "OpStar"
    /\ Len(nfa) >= 6

\* Every OpUnion node of the tree with the position of its branch state, when
\* the states of node are appended from position start on.
RECURSIVE UnionFragments(_, _)
UnionFragments(node, start) ==
    CASE node.node_type \in {"Literal", "Dot"} -> {}
      [] node.node_type = "OpConcat" ->
            UnionFragments(node.lhs, start)
                \cup UnionFragments(node.rhs, start + NodeStates(node.lhs))
      [] node.node_type = "OpUnion" ->
            {[node |-> node, branch |-> start]}
                \cup UnionFragments(node.lhs, start + 1)
                \cup UnionFragments(node.rhs, start + NodeStates(node.lhs) + 2)
      [] node.node_type = "OpStar" -> UnionFragments(node.lhs, start + 1)

\* The states reached from S by epsilon moves that do not leave from exit.
RECURSIVE FragClosure(_, _, _)
FragClosure(states, exit, S) ==
    LET S1 == S \cup UNION {At(states, x).transition[Eps] : x \in S \ {exit}}
    IN  IF S1 = S THEN S ELSE FragClosure(states, exit, S1)

\* The states the fragment is in after reading s from position k on.
RECURSIVE FragRun(_, _, _, _, _)
FragRun(states, exit, S, s, k) ==
    IF k > Len(s) THEN S
    ELSE FragRun(states, exit,
                 FragClosure(states, exit,
                             UNION {At(states, x).transition[s[k]] : x \in S \ {exit}}),
                 s, k + 1)

\* The fragment entered at entry reads s and ends in exit.
FragAccepts(states, entry, exit, s) ==
    exit \in FragRun(states, exit, FragClosure(states, exit, {entry}), s, 1)

\* The fragment of one OpUnion node is a one-entry, one-exit union.
CleanUnion(states, f) ==
    LET branch == f.branch
        lentry == branch + 1
        lexit == lentry + NodeStates(f.node.lhs)
        rentry == lexit + 1
        rexit == rentry + NodeStates(f.node.rhs)
        exit == branch + NodeStates(f.node)
        inside == branch .. (exit - 1)
        all == 0 .. (Len(states) - 1)
    IN  /\ exit \in all
        /\ At(states, branch).transition =
              [c \in 0 .. Eps |-> IF c = Eps THEN {lentry, rentry} ELSE {}]
        /\ At(states, lexit).transition =
              [c \in 0 .. Eps |-> IF c = Eps THEN {exit} ELSE {}]
        /\ exit \in FragClosure(states, exit, {lexit})
        /\ exit \in FragClosure(states, exit, {rexit})
        /\ \A x \in inside : \A c \in 0 .. Eps :
              At(states, x).transition[c] \subseteq (inside \cup {exit})
        /\ \A x \in all \ inside : \A c \in 0 .. Eps :
              At(states, x).transition[c] \cap (inside \ {branch}) = {}
        /\ \A s \in Strings :
              /\ FragAccepts(states, lentry, lexit, s) = Matches(f.node.lhs, s)
              /\ FragAccepts(states, rentry, rexit, s) = Matches(f.node.rhs, s)
              /\ FragAccepts(states, branch, exit, s) = Matches(f.node, s)

\* C12: for every OpUnion node anywhere in the tree, the fragment built by
\* Nfa::construct has one entry and one exit: the branch state has epsilon
\* edges to exactly the entries of the two operands, the exits of both operands
\* reach by epsilon the same exit state, the first state appended after the
\* fragment, no other edge enters or leaves the fragment, and the fragment
\* accepts exactly the strings of the left or of the right operand.
C12_UnionOneEntryOneExit ==
    pc = "nfa" => \A f \in UnionFragments(tree, 1) : CleanUnion(nfa, f)

\* C12 witness: the NFA of a tree with a union whose operand is itself a
\* union, a star or a concatenation.
C12_Witness ==
    /\ pc = "nfa"
    /\ \E f \in UnionFragments(tree, 1) :
          /\ {f.node.lhs.node_type, f.node.rhs.node_type}
                \cap {"OpUnion", "OpStar", "OpConcat"} # {}
          /\ f.branch > 1

\* C13: in Dfa::construct the registered StateSets and the DFA states are
\* aligned: indices are handed out in enqueue order (the queue holds, in order,
\* the subsets with the next indices to be built), so on return the number of
\* DFA states equals the number of registered StateSets, the state at position
\* k has id k and is built from the StateSet with index k (its accept flag and
\* its transitions come from that subset's members), and every present
\* transition entry is below states.len() and is the index of the subset nfa.t
\* gave for it.
C13_IndexAlignment ==
    (pc \in {"construct", "dfa"} /\ minimized = 0) =>
        LET n == Len(dfa.states)
            reg == DOMAIN subset_to_state
        IN  /\ state_num = Cardinality(reg)
            /\ {subset_to_state[Q] : Q \in reg} = 0 .. (state_num - 1)
            /\ n + Len(queue) = state_num
            /\ \A i \in 1 .. Len(queue) : subset_to_state[queue[i]] = n + i - 1
            /\ pc = "dfa" => (queue = <<>> /\ dfa.state_num = n)
            /\ \A k \in 0 .. (n - 1) :
                  LET state == At(dfa.states, k)
                      Q == SubsetOf(k)
                  IN  /\ state.id = k
                      /\ state.accept = (\E s \in Q : At(nfa, s).accept)
                      /\ \A c \in Bytes :
                            LET targets == {t(nfa, s, c) : s \in Q} \ {{}}
                            IN  IF targets = {} THEN state.t[c] = None
                                ELSE /\ state.t[c] \in 0 .. (state_num - 1)
                                     /\ SubsetOf(state.t[c]) \in targets
                                     /\ pc = "dfa" => state.t[c] < n

\* C13 witness: Dfa::construct has returned a DFA of three or more states in
\* which one state registered two new subsets in one iteration and one state
\* has a transition to a subset registered earlier.
C13_Witness ==
    /\ pc = "dfa"
    /\ minimized = 0
    /\ Len(dfa.states) >= 3
    /\ \E k \in 0 .. (Len(dfa.states) - 1) : \E c1, c2 \in Bytes :
          /\ At(dfa.states, k).t[c1] > k
          /\ At(dfa.states, k).t[c2] > k
          /\ At(dfa.states, k).t[c1] # At(dfa.states, k).t[c2]
    /\ \E k \in 0 .. (Len(dfa.states) - 1) : \E c \in Bytes :
          /\ At(dfa.states, k).t[c] # None
          /\ At(dfa.states, k).t[c] <= k
====
